---------------------------- MODULE Spec2Model ----------------------------
(***************************************************************************)
(* minicompiler (src/main.rs): lex turns a line of text into tokens and    *)
(* parse reorders them into postfix with the shunting-yard algorithm.      *)
(*                                                                         *)
(* Three specifications share the variables:                               *)
(*   SpecLex    one call of lex on a bounded input line;                   *)
(*   SpecParse  one call of parse on a bounded token vector (the way the   *)
(*              unit test basic_parsing calls it);                         *)
(*   Spec       main / full_lex_parse: lex, then parse on lex's tokens.    *)
(***************************************************************************)
EXTENDS Integers, Sequences, FiniteSets, Bags, TLC

VARIABLES
    input,          \* lex: the characters of the input line (&str)
    pos,            \* lex: index of the next character of input.chars()
    lexResult,      \* lex: `result`, the Vec<Token> being built
    lexOut,         \* lex: "idle" | "running" | "Ok" | "BadInput" | "Panic"
    overflowChecks, \* build profile: TRUE = arithmetic overflow panics
    tokens,         \* parse: the `tokens` argument
    k,              \* parse: index of the next token of `for tok in tokens`
    result,         \* parse: `result`
    stack,          \* parse: `stack`
    parseOut        \* parse: "idle" | "running" | "Ok" | "NoMatchingParen"
                    \*        | "Unreachable" (the unreachable! arm)
                    \*        | "AssertFailed" (assert!(stack.is_empty()))

vars == <<input, pos, lexResult, lexOut, overflowChecks,
          tokens, k, result, stack, parseOut>>

lexVars == <<input, pos, lexResult, lexOut, overflowChecks>>
parseVars == <<tokens, k, result, stack, parseOut>>

(***************************************************************************)
(* Bounds of the model.                                                    *)
(***************************************************************************)
MaxInput == 3       \* SpecLex: every line of at most this many characters
MaxTail == 2        \* SpecLex: digits appended to the 9-digit boundary prefix
MaxTokens == 4      \* SpecParse: every token vector of at most this length
MaxInfix == 4       \* infix expressions of at most this many Numbers and
                    \* pairs of parentheses together
MaxPostfix == 2     \* Reverse Polish sequences of at most this many operators
MaxLine == 2        \* Spec: every line of at most this many characters

(***************************************************************************)
(* Op, Op::precedence, Token                                               *)
(***************************************************************************)
Ops == {"Mul", "Div", "Add", "Sub"}

PREC_MUL == 3
PREC_ADD == 2

\* mutant: the two ranks exchanged
precedence_swapped(op) == IF op \in {"Mul", "Div"} THEN PREC_ADD ELSE PREC_MUL

precedence(op) == IF op \in {"Mul", "Div"} THEN PREC_MUL ELSE PREC_ADD

EOF == [type |-> "EOF"]
Number(n) == [type |-> "Number", value |-> n]
Operation(op) == [type |-> "Operation", op |-> op]
LeftParen == [type |-> "LeftParen"]
RightParen == [type |-> "RightParen"]

IsNumber(t) == t.type = "Number"
IsOperation(t) == t.type = "Operation"

(***************************************************************************)
(* i32 arithmetic of `(i * 10) + num`.  An overflow panics in a build with *)
(* overflow checks and wraps modulo 2^32 in a build without them.          *)
(***************************************************************************)
I32Max == 2147483647
I32Min == (-I32Max) - 1

AddOverflows(a, b) ==
    \/ a > 0 /\ b > 0 /\ a > I32Max - b
    \/ a < 0 /\ b < 0 /\ a < I32Min - b

WrapAdd(a, b) ==
    IF a > 0 /\ b > 0 /\ a > I32Max - b
        THEN ((a - I32Max) - 1) + ((b - I32Max) - 1)
    ELSE IF a < 0 /\ b < 0 /\ a < I32Min - b
        THEN ((a + I32Max) + 1) + ((b + I32Max) + 1)
    ELSE a + b

\* i * 10 modulo 2^32, by doubling: 2i, 4i, 5i, 10i
WrapMul10(i) ==
    LET i2 == WrapAdd(i, i)
        i4 == WrapAdd(i2, i2)
        i5 == WrapAdd(i4, i)
    IN  WrapAdd(i5, i5)

Mul10Overflows(i) == i > I32Max \div 10 \/ i < -(I32Max \div 10)

\* does (i * 10) + num overflow an i32 ?
MergeOverflows(i, num) ==
    \/ Mul10Overflows(i)
    \/ AddOverflows(i * 10, num)

\* mutant: the previous value is not shifted one decimal place
MergeValue_unshifted(i, num) == WrapAdd(i, num)

\* the value of (i * 10) + num when it wraps
MergeValue(i, num) == WrapAdd(WrapMul10(i), num)

(***************************************************************************)
(* lex                                                                     *)
(***************************************************************************)
DigitChars == {"0", "1", "2", "3", "4", "5", "6", "7", "8", "9"}

\* (character as u8 - '0' as u8) as i32
DigitValue(c) ==
    CASE c = "0" -> 0 [] c = "1" -> 1 [] c = "2" -> 2 [] c = "3" -> 3
      [] c = "4" -> 4 [] c = "5" -> 5 [] c = "6" -> 6 [] c = "7" -> 7
      [] c = "8" -> 8 [] c = "9" -> 9

Terminators == {";", "\n"}
OpChars == {"*", "/", "+", "-"}
ParenChars == {"(", ")"}

OpOfChar(c) ==
    CASE c = "*" -> "Mul" [] c = "/" -> "Div" [] c = "+" -> "Add" [] c = "-" -> "Sub"

Last(s) == s[Len(s)]
Front(s) == SubSeq(s, 1, Len(s) - 1)

\* the digit arm: match result.pop() { Some(Number(i)) | Some(last) | None }
LexDigitArm(res, c, checked) ==
    LET num == DigitValue(c) IN
    IF res = <<>>
        THEN [out |-> "running", result |-> <<Number(num)>>]
    ELSE IF IsNumber(Last(res))
        THEN LET i == Last(res).value IN
             IF MergeOverflows(i, num) /\ checked
                 THEN [out |-> "Panic", result |-> <<>>]
                 ELSE [out |-> "running",
                       result |-> Append(Front(res), Number(MergeValue(i, num)))]
    ELSE [out |-> "running", result |-> Append(res, Number(num))]

\* mutant: a space ends the literal before it
LexSpaceArm_separates(res) ==
    [out |-> "running",
     result |-> IF res # <<>> /\ IsNumber(Last(res))
                    THEN Append(res, Number(0)) ELSE res]

\* ' ' => continue
LexSpaceArm(res) == [out |-> "running", result |-> res]

\* mutant: the terminator pushes EOF and the loop goes on
LexTerminatorArm_no_break(res) == [out |-> "running", result |-> Append(res, EOF)]

\* ';' | '\n' => { result.push(EOF); break; }
LexTerminatorArm(res) == [out |-> "Ok", result |-> Append(res, EOF)]

\* mutant: an unknown character is skipped
LexOtherArm_skips(res) == [out |-> "running", result |-> res]

\* _ => return Err(ParsingError::BadInput): the Vec is dropped
LexOtherArm(res) == [out |-> "BadInput", result |-> <<>>]

\* one iteration of `for character in input.chars()`: the match on character.
\* out = "running": the loop goes on; "Ok": break, then Ok(result)
LexChar(res, c, checked) ==
    IF c = " " THEN LexSpaceArm(res)
    ELSE IF c \in Terminators THEN LexTerminatorArm(res)
    ELSE IF c \in OpChars
        THEN [out |-> "running", result |-> Append(res, Operation(OpOfChar(c)))]
    ELSE IF c = "(" THEN [out |-> "running", result |-> Append(res, LeftParen)]
    ELSE IF c = ")" THEN [out |-> "running", result |-> Append(res, RightParen)]
    ELSE IF c \in DigitChars THEN LexDigitArm(res, c, checked)
    ELSE LexOtherArm(res)

\* lex as a function: the loop from character i on, then Ok(result)
RECURSIVE LexFrom(_, _, _, _)
LexFrom(s, i, res, checked) ==
    IF i > Len(s) THEN [out |-> "Ok", result |-> res]
    ELSE LET st == LexChar(res, s[i], checked) IN
         IF st.out = "running" THEN LexFrom(s, i + 1, st.result, checked)
         ELSE st

Lex(s, checked) == LexFrom(s, 1, <<>>, checked)

\* the loop body as a step of the running call
LexStep(class) ==
    /\ lexOut = "running"
    /\ pos <= Len(input)
    /\ input[pos] \in class
    /\ LET st == LexChar(lexResult, input[pos], overflowChecks) IN
        /\ lexOut' = st.out
        /\ lexResult' = st.result
    /\ pos' = pos + 1
    /\ UNCHANGED <<input, overflowChecks>>

LexSpace == LexStep({" "}) /\ UNCHANGED parseVars
LexTerminator == LexStep(Terminators) /\ UNCHANGED parseVars
LexOperator == LexStep(OpChars) /\ UNCHANGED parseVars
LexParen == LexStep(ParenChars) /\ UNCHANGED parseVars
LexDigit == LexStep(DigitChars) /\ UNCHANGED parseVars

KnownChars == {" "} \cup Terminators \cup OpChars \cup ParenChars \cup DigitChars

\* the `_` arm: any other character
LexBadChar ==
    /\ lexOut = "running"
    /\ pos <= Len(input)
    /\ input[pos] \notin KnownChars
    /\ LexStep({input[pos]})
    /\ UNCHANGED parseVars

\* input.chars() is exhausted: Ok(result)
LexEnd ==
    /\ lexOut = "running"
    /\ pos > Len(input)
    /\ lexOut' = "Ok"
    /\ UNCHANGED <<input, pos, lexResult, overflowChecks>>
    /\ UNCHANGED parseVars

NextLex ==
    \/ LexSpace
    \/ LexTerminator
    \/ LexOperator
    \/ LexParen
    \/ LexDigit
    \/ LexBadChar
    \/ LexEnd

\* the lines of the tests and of the specification's examples
LineFull ==
    <<"3", " ", "+", " ", "4", " ", "*", " ", "(", "4", "2", "0", " ", "-", " ",
      "6", "9", ")", " ", "/", " ", "(", "2", " ", "+", " ", "4", ")">>
LineDiv == <<"(", "3", "0", " ", "+", " ", "5", "6", "0", ")", " ", "/", " ", "4">>
LineSub == <<"8", " ", "-", " ", "3", " ", "-", " ", "2">>
LineAdd == <<"4", "2", "0", " ", "+", " ", "6", "9">>
LineTacos ==
    <<"t", "a", "c", "o", "s", " ", "a", "r", "e", " ", "t", "a", "s", "t", "y">>

TestLines == {LineFull, LineDiv, LineSub, LineAdd, LineTacos}

(***************************************************************************)
(* Input lines of SpecLex                                                  *)
(***************************************************************************)
InputDigits == {"0", "2", "4", "9"}
LexChars == InputDigits \cup {" "} \cup Terminators \cup OpChars
                \cup ParenChars \cup {"a", "t"}

SeqsUpTo(S, n) == UNION {[1..m -> S] : m \in 0..n}

\* "214748364": every 10-digit continuation straddles i32::MAX
BoundaryPrefix == <<"2", "1", "4", "7", "4", "8", "3", "6", "4">>

LongSuffixes == {<<>>, <<"a">>, <<";">>, <<" ", "1">>, <<"+", "1">>}

LongInputs ==
    {z \o BoundaryPrefix \o t \o s :
        z \in {<<>>, <<"0">>, <<"0", " ", "0">>},
        t \in SeqsUpTo(DigitChars, MaxTail),
        s \in LongSuffixes}

\* the lines lex is called with: every short line, the lines around
\* i32::MAX, the lines of the tests
IsLexInput(s) ==
    \/ \E m \in 0..MaxInput : s \in [1..m -> LexChars]
    \/ s \in LongInputs
    \/ s \in TestLines

InitParseIdle ==
    /\ tokens = <<>>
    /\ k = 1
    /\ result = <<>>
    /\ stack = <<>>
    /\ parseOut = "idle"

InitLex ==
    /\ IsLexInput(input)
    /\ pos = 1
    /\ lexResult = <<>>
    /\ lexOut = "running"
    /\ overflowChecks \in BOOLEAN
    /\ InitParseIdle

SpecLex == InitLex /\ [][NextLex]_vars

(***************************************************************************)
(* Stack<T>::top, tilt_until, parse                                        *)
(***************************************************************************)
\* mutant: `stop` is found but left on the stack
RECURSIVE tilt_until_keeps_stop(_, _, _)
tilt_until_keeps_stop(operators, output, stop) ==
    IF operators = <<>>
        THEN [found |-> FALSE, operators |-> operators, output |-> output]
    ELSE IF Last(operators) = stop
        THEN [found |-> TRUE, operators |-> operators, output |-> output]
    ELSE tilt_until_keeps_stop(Front(operators), Append(output, Last(operators)), stop)

\* mutant: `stop` is pushed to the output before it is compared
RECURSIVE tilt_until_emits_stop(_, _, _)
tilt_until_emits_stop(operators, output, stop) ==
    IF operators = <<>>
        THEN [found |-> FALSE, operators |-> operators, output |-> output]
    ELSE IF Last(operators) = stop
        THEN [found |-> TRUE, operators |-> Front(operators),
              output |-> Append(output, Last(operators))]
    ELSE tilt_until_emits_stop(Front(operators), Append(output, Last(operators)), stop)

\* tilt_until: pop operators into output until `stop` is popped (true) or
\* the stack is empty (false)
RECURSIVE tilt_until(_, _, _)
tilt_until(operators, output, stop) ==
    IF operators = <<>>
        THEN [found |-> FALSE, operators |-> operators, output |-> output]
    ELSE IF Last(operators) = stop
        THEN [found |-> TRUE, operators |-> Front(operators), output |-> output]
    ELSE tilt_until(Front(operators), Append(output, Last(operators)), stop)

\* mutant: p >= q
PopsBefore_nonstrict(top_op, op) == precedence(top_op) >= precedence(op)

\* should the operator loop pop `top_op` when `op` arrives ?
PopsBefore(top_op, op) == precedence(top_op) > precedence(op)

\* mutant: the popped operator is not pushed to the result
RECURSIVE PopOperators_drops(_, _, _)
PopOperators_drops(stk, res, op) ==
    IF stk = <<>> THEN [panic |-> FALSE, stack |-> stk, result |-> res]
    ELSE LET top == Last(stk) IN
         IF top = LeftParen THEN [panic |-> FALSE, stack |-> stk, result |-> res]
         ELSE IF IsOperation(top)
             THEN IF PopsBefore(top.op, op)
                      THEN PopOperators_drops(Front(stk), res, op)
                      ELSE [panic |-> FALSE, stack |-> stk, result |-> res]
         ELSE [panic |-> TRUE, stack |-> stk, result |-> res]

\* the Operation(op) arm's `while let Some(top) = stack.top()` loop
RECURSIVE PopOperators(_, _, _)
PopOperators(stk, res, op) ==
    IF stk = <<>> THEN [panic |-> FALSE, stack |-> stk, result |-> res]
    ELSE LET top == Last(stk) IN
         IF top = LeftParen THEN [panic |-> FALSE, stack |-> stk, result |-> res]
         ELSE IF IsOperation(top)
             THEN IF PopsBefore(top.op, op)
                      THEN PopOperators(Front(stk), Append(res, top), op)
                      ELSE [panic |-> FALSE, stack |-> stk, result |-> res]
         ELSE [panic |-> TRUE, stack |-> stk, result |-> res]

\* mutant: the Number is pushed onto the stack
NumberArm_on_stack(res, stk, tok) == [result |-> res, stack |-> Append(stk, tok)]

\* the Number(_) arm: result.push(tok)
NumberArm(res, stk, tok) == [result |-> Append(res, tok), stack |-> stk]

\* the code after the loop: the final tilt_until, the assert, Ok(result)
Finish ==
    LET t == tilt_until(stack, result, LeftParen) IN
    /\ stack' = t.operators
    /\ result' = t.output
    /\ parseOut' = IF t.found THEN "NoMatchingParen"
                   ELSE IF t.operators # <<>> THEN "AssertFailed"
                   ELSE "Ok"

AtToken(types) ==
    /\ parseOut = "running"
    /\ k <= Len(tokens)
    /\ tokens[k].type \in types

ParseNumber ==
    /\ AtToken({"Number"})
    /\ LET a == NumberArm(result, stack, tokens[k]) IN
        /\ result' = a.result
        /\ stack' = a.stack
    /\ k' = k + 1
    /\ UNCHANGED <<tokens, parseOut>>
    /\ UNCHANGED lexVars

ParseLeftParen ==
    /\ AtToken({"LeftParen"})
    /\ stack' = Append(stack, tokens[k])
    /\ k' = k + 1
    /\ UNCHANGED <<tokens, result, parseOut>>
    /\ UNCHANGED lexVars

ParseRightParen ==
    /\ AtToken({"RightParen"})
    /\ LET t == tilt_until(stack, result, LeftParen) IN
        /\ stack' = t.operators
        /\ result' = t.output
        /\ parseOut' = IF t.found THEN "running" ELSE "NoMatchingParen"
    /\ k' = k + 1
    /\ UNCHANGED tokens
    /\ UNCHANGED lexVars

ParseOperation ==
    /\ AtToken({"Operation"})
    /\ LET p == PopOperators(stack, result, tokens[k].op) IN
        IF p.panic
            THEN /\ parseOut' = "Unreachable"
                 /\ stack' = p.stack
                 /\ result' = p.result
            ELSE /\ parseOut' = "running"
                 /\ stack' = Append(p.stack, tokens[k])
                 /\ result' = p.result
    /\ k' = k + 1
    /\ UNCHANGED tokens
    /\ UNCHANGED lexVars

\* EOF => break, then the code after the loop
ParseEOF ==
    /\ AtToken({"EOF"})
    /\ Finish
    /\ k' = k + 1
    /\ UNCHANGED tokens
    /\ UNCHANGED lexVars

\* the tokens are exhausted, then the code after the loop
ParseEnd ==
    /\ parseOut = "running"
    /\ k > Len(tokens)
    /\ Finish
    /\ UNCHANGED <<tokens, k>>
    /\ UNCHANGED lexVars

NextParse ==
    \/ ParseNumber
    \/ ParseLeftParen
    \/ ParseRightParen
    \/ ParseOperation
    \/ ParseEOF
    \/ ParseEnd

(***************************************************************************)
(* Token vectors of SpecParse                                              *)
(***************************************************************************)
NumVals == {1, 2}

TokenAlphabet ==
    {EOF, LeftParen, RightParen}
        \cup {Operation(o) : o \in Ops} \cup {Number(n) : n \in NumVals}

\* InfixSets(w)[i], i \in 1..w: the infix expressions
\*   E ::= A | A Operation E      A ::= Number | LeftParen E RightParen
\* (the token vectors of E ::= Number | E Operation E | LeftParen E RightParen,
\* each once) with i Numbers and pairs of parentheses in all
RECURSIVE InfixSets(_)
InfixSets(w) ==
    IF w = 0 THEN <<>>
    ELSE LET t == InfixSets(w - 1)
             atoms == IF w = 1 THEN {<<Number(n)>> : n \in NumVals}
                      ELSE {<<LeftParen>> \o e \o <<RightParen>> : e \in t[w - 1].exprs}
         IN  Append(t,
                [atoms |-> atoms,
                 exprs |-> atoms \cup
                    UNION {{a \o <<Operation(o)>> \o e :
                                a \in t[i].atoms, e \in t[w - i].exprs, o \in Ops} :
                           i \in 1..(w - 1)}])

InfixTable == InfixSets(MaxInfix - 1)

\* x = F(e) for an infix expression e of at most MaxInfix Numbers and pairs
\* of parentheses
IsImageOfInfix(x, F(_)) ==
    \/ \E n \in NumVals : x = F(<<Number(n)>>)
    \/ \E i \in 1..(MaxInfix - 1) : \E e \in InfixTable[i].exprs :
            x = F(<<LeftParen>> \o e \o <<RightParen>>)
    \/ \E i \in 1..(MaxInfix - 1), j \in 1..(MaxInfix - 1) :
            /\ i + j <= MaxInfix
            /\ \E a \in InfixTable[i].atoms, e \in InfixTable[j].exprs, o \in Ops :
                    x = F(a \o <<Operation(o)>> \o e)

\* PostfixSets(n)[i + 1], i \in 0..n: the Reverse Polish sequences
\* P ::= Number | P P Operation with i operators
RECURSIVE PostfixSets(_)
PostfixSets(n) ==
    IF n = 0 THEN <<{<<Number(v)>> : v \in NumVals}>>
    ELSE LET t == PostfixSets(n - 1) IN
         Append(t,
            UNION {{a \o b \o <<Operation(o)>> :
                        a \in t[i + 1], b \in t[n - i], o \in Ops} :
                   i \in 0..(n - 1)})

PostfixUpTo(n) == LET t == PostfixSets(n) IN UNION {t[i + 1] : i \in 0..n}

\* the vectors of the test basic_parsing and of the specification's examples
VecLeft == <<LeftParen>>
VecRight == <<RightParen>>
VecParens ==
    <<Number(3), Operation("Add"), LeftParen, Number(4), Operation("Mul"),
      Number(5), RightParen>>
VecSub == <<Number(8), Operation("Sub"), Number(3), Operation("Sub"), Number(2)>>

TestVectors == {VecLeft, VecRight, VecParens, VecSub}

\* the token vectors parse is called with: every short vector, the infix
\* expressions (with and without a closing EOF), the Reverse Polish sequences
IsParseInput(ts) ==
    \/ \E m \in 0..MaxTokens : ts \in [1..m -> TokenAlphabet]
    \/ IsImageOfInfix(ts, LAMBDA e : e)
    \/ IsImageOfInfix(ts, LAMBDA e : e \o <<EOF>>)
    \/ ts \in PostfixUpTo(MaxPostfix)
    \/ ts \in TestVectors

InitLexIdle ==
    /\ input = <<>>
    /\ pos = 1
    /\ lexResult = <<>>
    /\ lexOut = "idle"
    /\ overflowChecks = FALSE

InitParse ==
    /\ IsParseInput(tokens)
    /\ k = 1
    /\ result = <<>>
    /\ stack = <<>>
    /\ parseOut = "running"
    /\ InitLexIdle

SpecParse == InitParse /\ [][NextParse]_vars

(***************************************************************************)
(* main and the test full_lex_parse: parse(lex(line))                      *)
(***************************************************************************)
\* let parsed_tokens = parse(tokens): lex returned Ok(tokens)
CallParse ==
    /\ lexOut = "Ok"
    /\ parseOut = "idle"
    /\ tokens' = lexResult
    /\ parseOut' = "running"
    /\ UNCHANGED <<k, result, stack>>
    /\ UNCHANGED lexVars

Next ==
    \/ NextLex
    \/ CallParse
    \/ NextParse

CharOfOp(o) ==
    CASE o = "Mul" -> "*" [] o = "Div" -> "/" [] o = "Add" -> "+" [] o = "Sub" -> "-"

CharOfDigit(n) ==
    CASE n = 0 -> "0" [] n = 1 -> "1" [] n = 2 -> "2" [] n = 3 -> "3"
      [] n = 4 -> "4" [] n = 5 -> "5" [] n = 6 -> "6" [] n = 7 -> "7"
      [] n = 8 -> "8" [] n = 9 -> "9"

\* a line that spells the tokens of an infix expression over one-digit Numbers
Spell(ts) ==
    [j \in 1..Len(ts) |->
        CASE ts[j].type = "Number" -> CharOfDigit(ts[j].value)
          [] ts[j].type = "Operation" -> CharOfOp(ts[j].op)
          [] ts[j].type = "LeftParen" -> "("
          [] ts[j].type = "RightParen" -> ")"
          [] ts[j].type = "EOF" -> ";"]

\* the lines main reads: every short line, the lines that spell an infix
\* expression (with and without a terminator), the lines of the tests
IsMainLine(s) ==
    \/ \E m \in 0..MaxLine : s \in [1..m -> LexChars]
    \/ IsImageOfInfix(s, LAMBDA e : Spell(e))
    \/ \E t \in Terminators : IsImageOfInfix(s, LAMBDA e : Spell(e) \o <<t>>)
    \/ s \in TestLines

Init ==
    /\ IsMainLine(input)
    /\ pos = 1
    /\ lexResult = <<>>
    /\ lexOut = "running"
    /\ overflowChecks \in BOOLEAN
    /\ InitParseIdle

Spec == Init /\ [][Next]_vars

(***************************************************************************)
(* Definitions the properties are stated with                              *)
(***************************************************************************)
LexDone == lexOut \in {"Ok", "BadInput", "Panic"}
ParseDone == parseOut \in {"Ok", "NoMatchingParen", "Unreachable", "AssertFailed"}

Min(S) == CHOOSE x \in S : \A y \in S : x <= y

Occurrences(s, x) == Cardinality({j \in 1..Len(s) : s[j] = x})

Reverse(s) == [j \in 1..Len(s) |-> s[Len(s) + 1 - j]]

\* the tokens that precede the first EOF (all of them if there is none)
BeforeEOF(ts) ==
    LET at == {j \in 1..Len(ts) : ts[j] = EOF} IN
    IF at = {} THEN ts ELSE SubSeq(ts, 1, Min(at) - 1)

\* open parentheses not yet closed before position j
DepthBefore(s, j) ==
    Cardinality({i \in 1..(j - 1) : s[i] = LeftParen})
        - Cardinality({i \in 1..(j - 1) : s[i] = RightParen})

\* every RightParen closes an earlier LeftParen, every LeftParen is closed
Balanced(s) ==
    /\ \A j \in 1..(Len(s) + 1) : DepthBefore(s, j) >= 0
    /\ DepthBefore(s, Len(s) + 1) = 0

Additive(op) == op \in {"Add", "Sub"}
SameRank(o1, o2) == Additive(o1) <=> Additive(o2)

TopLevelOps(s) == {j \in 1..Len(s) : IsOperation(s[j]) /\ DepthBefore(s, j) = 0}

\* the root of the expression tree: the leftmost top-level Add/Sub, and with
\* none the leftmost top-level Mul/Div (equal precedence groups to the right)
Root(s) ==
    LET top == TopLevelOps(s)
        low == {j \in top : Additive(s[j].op)}
    IN  IF low # {} THEN Min(low) ELSE Min(top)

\* E ::= Number | E Operation E | LeftParen E RightParen
RECURSIVE IsInfixExpr(_)
IsInfixExpr(s) ==
    IF Len(s) = 0 THEN FALSE
    ELSE IF Len(s) = 1 THEN IsNumber(s[1])
    ELSE IF TopLevelOps(s) # {}
        THEN /\ IsInfixExpr(SubSeq(s, 1, Root(s) - 1))
             /\ IsInfixExpr(SubSeq(s, Root(s) + 1, Len(s)))
    ELSE /\ s[1] = LeftParen
         /\ s[Len(s)] = RightParen
         /\ IsInfixExpr(SubSeq(s, 2, Len(s) - 1))

\* operands, then operator, of the expression tree of the infix expression s
RECURSIVE TreePostfix(_)
TreePostfix(s) ==
    IF Len(s) = 1 THEN s
    ELSE IF TopLevelOps(s) # {}
        THEN TreePostfix(SubSeq(s, 1, Root(s) - 1))
                \o TreePostfix(SubSeq(s, Root(s) + 1, Len(s)))
                \o <<s[Root(s)]>>
    ELSE TreePostfix(SubSeq(s, 2, Len(s) - 1))

Num3(a, b, c) == <<Number(a), Number(b), Number(c)>>

FullPostfix ==
    <<Number(3), Number(4), Number(420), Number(69), Operation("Sub"), Number(2),
      Number(4), Operation("Add"), Operation("Div"), Operation("Mul"),
      Operation("Add")>>
DivPostfix ==
    <<Number(30), Number(560), Operation("Add"), Number(4), Operation("Div")>>

(***************************************************************************)
(* C1: parse turns every well-formed infix token sequence (optionally      *)
(* followed by EOF) into the postfix serialization of its expression tree, *)
(* Mul/Div binding tighter than Add/Sub, parentheses first, equal          *)
(* precedence grouping to the right; parse(lex("3 + 4 * (420 - 69) / (2 +  *)
(* 4)")) and parse(lex("(30 + 560) / 4")) are the two given vectors.       *)
(***************************************************************************)
C1_InfixToPostfix ==
    ParseDone =>
        /\ (/\ IsInfixExpr(BeforeEOF(tokens))
            /\ tokens \in {BeforeEOF(tokens), BeforeEOF(tokens) \o <<EOF>>})
                => /\ parseOut = "Ok"
                   /\ result = TreePostfix(BeforeEOF(tokens))
        /\ input = LineFull => parseOut = "Ok" /\ result = FullPostfix
        /\ input = LineDiv => parseOut = "Ok" /\ result = DivPostfix

C1_Witness ==
    /\ input = LineFull
    /\ parseOut = "Ok"
    /\ IsInfixExpr(tokens)
    /\ result = FullPostfix

(***************************************************************************)
(* C2: on a parenthesis-free n1 o1 n2 ... o(k-1) nk whose operators all    *)
(* have the same precedence, parse returns the Numbers in order followed   *)
(* by the operators in reverse arrival order.                              *)
(***************************************************************************)
IsFlatChain(ts) ==
    /\ Len(ts) % 2 = 1
    /\ \A j \in 1..Len(ts) :
        IF j % 2 = 1 THEN IsNumber(ts[j]) ELSE IsOperation(ts[j])
    /\ \A i, j \in 1..Len(ts) :
        (i % 2 = 0 /\ j % 2 = 0) => SameRank(ts[i].op, ts[j].op)

C2_EqualPrecedenceReversed ==
    (ParseDone /\ IsFlatChain(tokens)) =>
        /\ parseOut = "Ok"
        /\ result = SelectSeq(tokens, IsNumber)
                        \o Reverse(SelectSeq(tokens, IsOperation))

C2_Witness ==
    /\ tokens = VecSub
    /\ parseOut = "Ok"
    /\ result = Num3(8, 3, 2) \o <<Operation("Sub"), Operation("Sub")>>

(***************************************************************************)
(* C3: parse returns Err(NoMatchingParen) exactly when the parentheses     *)
(* among the tokens before the first EOF do not match, and Ok otherwise.   *)
(***************************************************************************)
C3_ErrorIffUnmatched ==
    ParseDone =>
        IF Balanced(BeforeEOF(tokens))
            THEN parseOut = "Ok"
            ELSE parseOut = "NoMatchingParen"

C3_Witness ==
    /\ parseOut = "NoMatchingParen"
    /\ tokens = <<LeftParen, Number(1), RightParen, RightParen>>

(***************************************************************************)
(* C6: when parse returns Ok, the output holds no LeftParen, RightParen or *)
(* EOF and is a permutation of the Number and Operation tokens before the  *)
(* first EOF, the Numbers in their input order.                            *)
(***************************************************************************)
IsOperand(t) == IsNumber(t) \/ IsOperation(t)

C6_OutputIsPermutation ==
    parseOut = "Ok" =>
        LET kept == SelectSeq(BeforeEOF(tokens), IsOperand) IN
        /\ \A j \in 1..Len(result) : IsOperand(result[j])
        /\ Len(result) = Len(kept)
        /\ \A j \in 1..Len(kept) :
                Occurrences(result, kept[j]) = Occurrences(kept, kept[j])
        /\ SelectSeq(result, IsNumber) = SelectSeq(kept, IsNumber)

C6_Witness ==
    /\ parseOut = "Ok"
    /\ tokens = VecParens
    /\ result = Num3(3, 4, 5) \o <<Operation("Mul"), Operation("Add")>>

(***************************************************************************)
(* C9: the stack of parse holds only Operation and LeftParen tokens in     *)
(* every state, the unreachable! arm is never executed, and the stack is   *)
(* empty whenever parse returns Ok (the final assert never fails).         *)
(***************************************************************************)
C9_StackInvariant ==
    /\ \A j \in 1..Len(stack) : stack[j] = LeftParen \/ IsOperation(stack[j])
    /\ parseOut \notin {"Unreachable", "AssertFailed"}
    /\ parseOut = "Ok" => stack = <<>>

C9_Witness ==
    /\ parseOut = "Ok"
    /\ stack = <<>>
    /\ tokens = <<Operation("Add"), Operation("Mul"), EOF, RightParen>>
    /\ result = <<Operation("Mul"), Operation("Add")>>

(***************************************************************************)
(* Definitions the properties of lex are stated with                       *)
(***************************************************************************)
AllowedChars ==
    {"0", "1", "2", "3", "4", "5", "6", "7", "8", "9",
     " ", "+", "-", "*", "/", "(", ")", ";", "\n"}

IsDigitChar(c) == c \in {"0", "1", "2", "3", "4", "5", "6", "7", "8", "9"}
NotSpace(c) == c # " "

StripSpaces(s) == SelectSeq(s, NotSpace)

\* positions of the characters outside the alphabet, and of the terminators
BadAt(s) == {j \in 1..Len(s) : s[j] \notin AllowedChars}
TerminatorAt(s) == {j \in 1..Len(s) : s[j] \in {";", "\n"}}

RECURSIVE StripZeros(_)
StripZeros(s) ==
    IF Len(s) > 1 /\ s[1] = "0" THEN StripZeros(Tail(s)) ELSE s

\* the decimal numeral of n >= 0
RECURSIVE DecimalString(_)
DecimalString(n) ==
    IF n < 10 THEN <<CharOfDigit(n)>>
    ELSE Append(DecimalString(n \div 10), CharOfDigit(n % 10))

\* v is the decimal value of the digit string s
HasDecimalValue(v, s) == v >= 0 /\ DecimalString(v) = StripZeros(s)

\* numerals of equal length: a <= b
RECURSIVE NumeralLeq(_, _)
NumeralLeq(a, b) ==
    IF a = <<>> THEN TRUE
    ELSE IF a[1] = b[1] THEN NumeralLeq(Tail(a), Tail(b))
    ELSE DigitValue(a[1]) < DigitValue(b[1])

\* the decimal value of the digit string s is at most i32::MAX
FitsI32(s) ==
    LET t == StripZeros(s)
        m == DecimalString(I32Max)
    IN  Len(t) < Len(m) \/ (Len(t) = Len(m) /\ NumeralLeq(t, m))

\* the maximal runs of digits of s
DigitRuns(s) ==
    {r \in (1..Len(s)) \X (1..Len(s)) :
        /\ r[1] <= r[2]
        /\ \A j \in r[1]..r[2] : IsDigitChar(s[j])
        /\ r[1] = 1 \/ ~IsDigitChar(s[r[1] - 1])
        /\ r[2] = Len(s) \/ ~IsDigitChar(s[r[2] + 1])}

\* every literal of s (digits separated by nothing but spaces) fits an i32
LiteralsFit(s) ==
    LET t == StripSpaces(s) IN
    \A r \in DigitRuns(t) : FitsI32(SubSeq(t, r[1], r[2]))

DigitOnly(s) == Len(s) >= 1 /\ \A j \in 1..Len(s) : IsDigitChar(s[j])

OneNumberOfValue(s) ==
    /\ lexOut = "Ok"
    /\ Len(lexResult) = 1
    /\ IsNumber(lexResult[1])
    /\ HasDecimalValue(lexResult[1].value, s)

C5_Original ==
    (LexDone /\ DigitOnly(input)) => OneNumberOfValue(input)

(***************************************************************************)
(* C5 amended: that holds when the decimal value is at most i32::MAX       *)
(* (2147483647); above it the accumulation previous*10 + digit overflows:  *)
(* lex panics in a build with overflow checks, and otherwise returns one   *)
(* Number whose wrapped value is not the decimal value.                    *)
(***************************************************************************)
C5_DecimalValueWithinI32 ==
    (LexDone /\ DigitOnly(input)) =>
        IF FitsI32(input) THEN OneNumberOfValue(input)
        ELSE IF overflowChecks THEN lexOut = "Panic" /\ lexResult = <<>>
        ELSE /\ lexOut = "Ok"
             /\ Len(lexResult) = 1
             /\ IsNumber(lexResult[1])
             /\ ~HasDecimalValue(lexResult[1].value, input)

C5_Witness ==
    /\ input = BoundaryPrefix \o <<"7">>
    /\ lexOut = "Ok"
    /\ lexResult = <<Number(I32Max)>>

(***************************************************************************)
(* C7: with a first ';' or newline at index k, lex depends only on the     *)
(* characters before k: Ok(ts) of that prefix becomes Ok(ts, EOF) with the *)
(* one EOF last, a failure of the prefix stays a failure; with no ';' or   *)
(* newline an Ok result holds no EOF.                                      *)
(***************************************************************************)
C7_TerminatorCutsInput ==
    LexDone =>
        IF TerminatorAt(input) # {}
            THEN LET pre == Lex(SubSeq(input, 1, Min(TerminatorAt(input)) - 1),
                                overflowChecks)
                 IN  IF pre.out = "Ok"
                        THEN /\ lexOut = "Ok"
                             /\ lexResult = Append(pre.result, EOF)
                             /\ Occurrences(lexResult, EOF) = 1
                        ELSE lexOut = pre.out /\ lexResult = <<>>
            ELSE lexOut = "Ok" => Occurrences(lexResult, EOF) = 0

C7_Witness ==
    /\ input = <<"2", ";", "a">>
    /\ lexOut = "Ok"
    /\ lexResult = <<Number(2), EOF>>

(***************************************************************************)
(* C10: lex(s) equals lex of s without its space characters; digits        *)
(* separated only by spaces merge into one literal (lex("4 2") = [42]).    *)
(***************************************************************************)
C10_SpacesIgnored ==
    LexDone =>
        /\ lexOut = Lex(StripSpaces(input), overflowChecks).out
        /\ lexResult = Lex(StripSpaces(input), overflowChecks).result

C10_Witness ==
    /\ input = <<"4", " ", "2">>
    /\ lexOut = "Ok"
    /\ lexResult = <<Number(42)>>

(***************************************************************************)
(* C8 as stated: on a Reverse Polish sequence of Numbers and Operations    *)
(* with no two adjacent operators of the same precedence parse returns the *)
(* input unchanged; so it does on a sequence of Numbers only.              *)
(***************************************************************************)
Height(ts, j) ==
    Cardinality({i \in 1..j : IsNumber(ts[i])})
        - Cardinality({i \in 1..j : IsOperation(ts[i])})

IsPostfix(ts) ==
    /\ Len(ts) >= 1
    /\ \A j \in 1..Len(ts) : IsOperand(ts[j]) /\ Height(ts, j) >= 1
    /\ Height(ts, Len(ts)) = 1

NoAdjacentSameRank(ts) ==
    \A j \in 1..(Len(ts) - 1) :
        ~(/\ IsOperation(ts[j])
          /\ IsOperation(ts[j + 1])
          /\ SameRank(ts[j].op, ts[j + 1].op))

OnlyNumbers(ts) == \A j \in 1..Len(ts) : IsNumber(ts[j])

\* no Number follows an Operation, and each operator binds tighter than the
\* operator after it
OperatorsLastDescending(ts) ==
    \A j \in 1..(Len(ts) - 1) :
        IsOperation(ts[j]) =>
            /\ IsOperation(ts[j + 1])
            /\ ~Additive(ts[j].op)
            /\ Additive(ts[j + 1].op)

C8_Original ==
    ParseDone =>
        /\ (IsPostfix(tokens) /\ NoAdjacentSameRank(tokens))
                => parseOut = "Ok" /\ result = tokens
        /\ OnlyNumbers(tokens) => parseOut = "Ok" /\ result = tokens

(***************************************************************************)
(* C8 amended: on such a sequence parse returns Ok, and the output equals  *)
(* the input exactly when no Number follows an Operation and each operator *)
(* has a higher precedence than the operator after it; a sequence of       *)
(* Numbers only is returned unchanged.                                     *)
(***************************************************************************)
C8_NoOpOnlyWithOperatorsLast ==
    ParseDone =>
        /\ (IsPostfix(tokens) /\ NoAdjacentSameRank(tokens))
                => /\ parseOut = "Ok"
                   /\ result = tokens <=> OperatorsLastDescending(tokens)
        /\ OnlyNumbers(tokens) => parseOut = "Ok" /\ result = tokens

C8_Witness ==
    /\ tokens = <<Number(1), Number(2), Operation("Add"), Number(1), Operation("Mul")>>
    /\ parseOut = "Ok"
    /\ result = Num3(1, 2, 1) \o <<Operation("Mul"), Operation("Add")>>

=============================================================================
